---- MODULE Spec2Model ----
(***************************************************************************)
(* A model of the HL7 v2 prescription message builder of src/main.py:      *)
(* the segment/field encoding engine (HL7Segment), the message assembler   *)
(* (HL7Builder) and the part of the segment catalog the properties below   *)
(* are about.                                                              *)
(*                                                                         *)
(* Text is modelled as a sequence of one-character strings, so that the    *)
(* character-level algorithms (replace, split, join) are computed as the   *)
(* code computes them.                                                     *)
(***************************************************************************)
EXTENDS Integers, Sequences, FiniteSets, TLC

VARIABLES
    op,           \* name of the last operation that was called
    value,        \* the value argument of the last call
    position,     \* the (field) position argument of the last call
    comp,         \* the component position argument of the last call
    err,          \* "none", or the exception the last call raised
    ret,          \* the text the last call returned
    fields,       \* HL7Segment.fields of the segment under construction
    segments,     \* HL7Builder.segments
    include_msh,  \* HL7Config.include_msh
    message_control_id   \* HL7Builder.message_control_id

vars == <<op, value, position, comp, err, ret, fields, segments, include_msh,
         message_control_id>>

-----------------------------------------------------------------------------
(* Bounds of the model *)

MaxLen == 3        \* longest raw string given to _escape_hl7 on its own
MaxPos == 1        \* largest field position passed to a segment operation
MaxComp == 2       \* largest component position passed to add_component
MaxFields == 1     \* add_field is not called on a longer field list
MaxSegments == 2   \* segment-appending operations stop at this many segments

-----------------------------------------------------------------------------
(* The delimiters *)

FIELD_SEP == "|"
COMPONENT_SEP == "^"
SUBCOMPONENT_SEP == "&"
REPETITION_SEP == "~"
ESCAPE_CHAR == "\\"
SEGMENT_DELIMITER == "\r"

Delimiters == {FIELD_SEP, COMPONENT_SEP, REPETITION_SEP, ESCAPE_CHAR, SUBCOMPONENT_SEP}

-----------------------------------------------------------------------------
(* Python values: None, str, int, bool and Decimal *)

None == [t |-> "none"]
StrV(s) == [t |-> "str", s |-> s]
IntV(n) == [t |-> "int", n |-> n]
BoolV(b) == [t |-> "bool", b |-> b]

Digit(n) == CASE n = 0 -> "0" [] n = 1 -> "1" [] n = 2 -> "2" [] n = 3 -> "3"
              [] n = 4 -> "4" [] n = 5 -> "5" [] n = 6 -> "6" [] n = 7 -> "7"
              [] n = 8 -> "8" [] n = 9 -> "9"

RECURSIVE Digits(_)
Digits(n) == IF n < 10 THEN <<Digit(n)>> ELSE Append(Digits(n \div 10), Digit(n % 10))

\* str(value)
PyStr(v) ==
    CASE v.t = "str" -> v.s
      [] v.t = "int" -> IF v.n < 0 THEN <<"-">> \o Digits(0 - v.n) ELSE Digits(v.n)
      [] v.t = "bool" -> IF v.b THEN <<"T", "r", "u", "e">> ELSE <<"F", "a", "l", "s", "e">>
      [] v.t = "none" -> <<"N", "o", "n", "e">>

\* the truth value of `value` in `... if value else ...`
Truthy(v) ==
    CASE v.t = "str" -> v.s # <<>>
      [] v.t = "int" -> v.n # 0
      [] v.t = "bool" -> v.b
      [] v.t = "none" -> FALSE

-----------------------------------------------------------------------------
(* str.replace, str.split and str.join *)

\* s.replace(ch, seq) for a one-character ch: every occurrence of ch is
\* replaced, the other characters are kept (computed by halving the string)
RECURSIVE Replace(_, _, _)
Replace(s, ch, seq) ==
    IF s = <<>> THEN <<>>
    ELSE IF Len(s) = 1 THEN (IF s[1] = ch THEN seq ELSE s)
    ELSE LET half == Len(s) \div 2
         IN  Replace(SubSeq(s, 1, half), ch, seq) \o Replace(SubSeq(s, half + 1, Len(s)), ch, seq)

\* s.split(sep) for a one-character sep
RECURSIVE Split(_, _)
Split(s, sep) ==
    LET at == {k \in 1..Len(s) : s[k] = sep}
    IN  IF at = {} THEN <<s>>
        ELSE LET i == CHOOSE k \in at : \A j \in at : k <= j
             IN  <<SubSeq(s, 1, i - 1)>> \o Split(SubSeq(s, i + 1, Len(s)), sep)

\* sep.join(parts) for a one-character sep (computed by halving the list)
RECURSIVE Join(_, _)
Join(parts, sep) ==
    IF parts = <<>> THEN <<>>
    ELSE IF Len(parts) = 1 THEN parts[1]
    ELSE LET half == Len(parts) \div 2
         IN  Join(SubSeq(parts, 1, half), sep) \o <<sep>>
             \o Join(SubSeq(parts, half + 1, Len(parts)), sep)

-----------------------------------------------------------------------------
(* HL7Segment._escape_hl7 *)

EscapeSeq(letter) == <<ESCAPE_CHAR, letter, ESCAPE_CHAR>>

\* escape_map, in the insertion order the for loop walks it
escape_map ==
    << <<FIELD_SEP, EscapeSeq("F")>>,
       <<COMPONENT_SEP, EscapeSeq("S")>>,
       <<REPETITION_SEP, EscapeSeq("R")>>,
       <<ESCAPE_CHAR, EscapeSeq("E")>>,
       <<SUBCOMPONENT_SEP, EscapeSeq("T")>> >>

RECURSIVE ReplaceAll(_, _)
ReplaceAll(result, map) ==
    IF map = <<>> THEN result
    ELSE ReplaceAll(Replace(result, Head(map)[1], Head(map)[2]), Tail(map))

_escape_hl7(s) == IF s = <<>> THEN <<>> ELSE ReplaceAll(s, escape_map)

-----------------------------------------------------------------------------
(* The escape function on its own: Init draws the raw string, the one      *)
(* action applies _escape_hl7 to it.                                       *)

Alphabet == Delimiters \cup {"F", "E", "a"}

RawStrings == UNION {[1..n -> Alphabet] : n \in 0..MaxLen}

InitEscape ==
    /\ op = "init"
    /\ value \in {StrV(s) : s \in RawStrings}
    /\ position = 0
    /\ comp = 0
    /\ err = "none"
    /\ ret = <<>>
    /\ fields = <<>>
    /\ segments = <<>>
    /\ include_msh = TRUE
    /\ message_control_id = <<>>

Escape ==
    /\ op = "init"
    /\ op' = "_escape_hl7"
    /\ ret' = _escape_hl7(value.s)
    /\ UNCHANGED <<value, position, comp, err, fields, segments, include_msh, message_control_id>>

NextEscape == Escape

SpecEscape == InitEscape /\ [][NextEscape]_vars

\* the delimiter an escape token \X\ stands for
TokenLetters == {"F", "S", "R", "E", "T"}

DelimiterOf(letter) ==
    CASE letter = "F" -> FIELD_SEP
      [] letter = "S" -> COMPONENT_SEP
      [] letter = "R" -> REPETITION_SEP
      [] letter = "E" -> ESCAPE_CHAR
      [] letter = "T" -> SUBCOMPONENT_SEP

\* decode: one left-to-right pass that replaces each escape token by its delimiter
RECURSIVE Decode(_)
Decode(s) ==
    IF s = <<>> THEN <<>>
    ELSE IF Len(s) >= 3 /\ s[1] = ESCAPE_CHAR /\ s[3] = ESCAPE_CHAR /\ s[2] \in TokenLetters
         THEN <<DelimiterOf(s[2])>> \o Decode(SubSeq(s, 4, Len(s)))
         ELSE <<Head(s)>> \o Decode(Tail(s))

\* the escape token of a delimiter character, the character itself otherwise
TokenOf(ch) ==
    CASE ch = FIELD_SEP -> EscapeSeq("F")
      [] ch = COMPONENT_SEP -> EscapeSeq("S")
      [] ch = REPETITION_SEP -> EscapeSeq("R")
      [] ch = ESCAPE_CHAR -> EscapeSeq("E")
      [] ch = SUBCOMPONENT_SEP -> EscapeSeq("T")
      [] OTHER -> <<ch>>

\* the character-by-character image of s under TokenOf
RECURSIVE CharImage(_)
CharImage(s) == IF s = <<>> THEN <<>> ELSE TokenOf(Head(s)) \o CharImage(Tail(s))

\* C1: round-trip law of _escape_hl7: decoding the escaped text gives back the
\* raw string, and no other raw string has the same escaped text.
C1_RoundTrip ==
    op = "_escape_hl7" =>
        /\ Decode(ret) = value.s
        /\ \A t \in RawStrings : _escape_hl7(t) = ret => t = value.s

\* C3: _escape_hl7 returns the character-by-character image of its input: each
\* delimiter becomes its token, every other character is copied, and the escape
\* characters of a token are not substituted again.
C3_CharByChar ==
    op = "_escape_hl7" => ret = CharImage(value.s)

-----------------------------------------------------------------------------
(* HL7Segment: add_field, set_field, add_component *)

\* while len(lst) < n: lst.append("")
PadTo(lst, n) == IF Len(lst) < n THEN lst \o [i \in 1..(n - Len(lst)) |-> <<>>] ELSE lst

\* lst[i] = x for a Python list and a 0-based (possibly negative) index i
SetItem(lst, i, x) ==
    LET k == IF i < 0 THEN i + Len(lst) ELSE i
    IN  IF k >= 0 /\ k < Len(lst)
        THEN [err |-> "none", fields |-> [lst EXCEPT ![k + 1] = x]]
        ELSE [err |-> "IndexError", fields |-> lst]

\* HL7Segment.add_field that stores the text of the value as it is
add_field_Unescaped(flds, v, pos) ==
    Append(PadTo(flds, pos), IF v.t = "none" THEN <<>> ELSE PyStr(v))

\* HL7Segment.add_field: pads with "" up to `position` entries, then appends
add_field(flds, v, pos) ==
    Append(PadTo(flds, pos), IF v.t = "none" THEN <<>> ELSE _escape_hl7(PyStr(v)))

\* the guard of set_field with its bound off by one
InvalidPosition_OffByOne(pos) == pos < 0

\* the guard of set_field
InvalidPosition(pos) == pos < 1

\* the guard of add_component
InvalidPositions(field_pos, comp_pos) == field_pos < 1 \/ comp_pos < 1

\* HL7Segment.set_field
set_field(flds, v, pos) ==
    IF InvalidPosition(pos) THEN [err |-> "ValueError", fields |-> flds]
    ELSE IF Len(flds) < pos
         THEN [err |-> "none", fields |-> add_field(flds, v, pos)]
         ELSE SetItem(flds, pos - 1, IF v.t = "none" THEN <<>> ELSE _escape_hl7(PyStr(v)))

\* HL7Segment.add_component that rejoins only the components up to comp_pos
add_component_Truncating(flds, v, field_pos, comp_pos) ==
    IF InvalidPositions(field_pos, comp_pos) THEN [err |-> "ValueError", fields |-> flds]
    ELSE LET flds1 == IF Len(flds) < field_pos THEN add_field(flds, StrV(<<>>), field_pos) ELSE flds
             field == flds1[field_pos]
             components == IF field # <<>> THEN Split(field, COMPONENT_SEP) ELSE <<>>
             padded == PadTo(components, comp_pos)
             written == [padded EXCEPT ![comp_pos] =
                            IF Truthy(v) THEN _escape_hl7(PyStr(v)) ELSE <<>>]
         IN  SetItem(flds1, field_pos - 1, Join(SubSeq(written, 1, comp_pos), COMPONENT_SEP))

\* HL7Segment.add_component
add_component(flds, v, field_pos, comp_pos) ==
    IF InvalidPositions(field_pos, comp_pos) THEN [err |-> "ValueError", fields |-> flds]
    ELSE LET flds1 == IF Len(flds) < field_pos THEN add_field(flds, StrV(<<>>), field_pos) ELSE flds
             field == flds1[field_pos]
             components == IF field # <<>> THEN Split(field, COMPONENT_SEP) ELSE <<>>
             padded == PadTo(components, comp_pos)
             written == [padded EXCEPT ![comp_pos] =
                            IF Truthy(v) THEN _escape_hl7(PyStr(v)) ELSE <<>>]
         IN  SetItem(flds1, field_pos - 1, Join(written, COMPONENT_SEP))

\* the values and positions the operations are called with
Values == {None, StrV(<<"|">>), IntV(0)}
FieldPositions == 0..MaxPos
CompPositions == 0..MaxComp

InitSegment ==
    /\ op = "init"
    /\ value = None
    /\ position = 0
    /\ comp = 0
    /\ err = "none"
    /\ ret = <<>>
    /\ fields = <<>>
    /\ segments = <<>>
    /\ include_msh = TRUE
    /\ message_control_id = <<>>

AddField ==
    \E v \in Values, pos \in FieldPositions :
        /\ Len(fields) < MaxFields
        /\ op' = "add_field"
        /\ value' = v
        /\ position' = pos
        /\ comp' = 0
        /\ err' = "none"
        /\ fields' = add_field(fields, v, pos)
        /\ UNCHANGED <<ret, segments, include_msh, message_control_id>>

SetField ==
    \E v \in Values, pos \in FieldPositions :
        LET r == set_field(fields, v, pos)
        IN  /\ op' = "set_field"
            /\ value' = v
            /\ position' = pos
            /\ comp' = 0
            /\ err' = r.err
            /\ fields' = r.fields
            /\ UNCHANGED <<ret, segments, include_msh, message_control_id>>

AddComponent ==
    \E v \in Values, pos \in FieldPositions, c \in CompPositions :
        LET r == add_component(fields, v, pos, c)
        IN  /\ op' = "add_component"
            /\ value' = v
            /\ position' = pos
            /\ comp' = c
            /\ err' = r.err
            /\ fields' = r.fields
            /\ UNCHANGED <<ret, segments, include_msh, message_control_id>>

NextSegment == AddField \/ SetField \/ AddComponent

SpecSegment == InitSegment /\ [][NextSegment]_vars

\* the same operations called with a text that holds the four separators, or
\* with no value
TextValues ==
    {StrV(<<FIELD_SEP, COMPONENT_SEP, REPETITION_SEP, SUBCOMPONENT_SEP>>), None}

AddFieldText ==
    \E v \in TextValues, pos \in FieldPositions :
        /\ Len(fields) < MaxFields
        /\ op' = "add_field"
        /\ value' = v
        /\ position' = pos
        /\ comp' = 0
        /\ err' = "none"
        /\ fields' = add_field(fields, v, pos)
        /\ UNCHANGED <<ret, segments, include_msh, message_control_id>>

SetFieldText ==
    \E v \in TextValues, pos \in FieldPositions :
        LET r == set_field(fields, v, pos)
        IN  /\ op' = "set_field"
            /\ value' = v
            /\ position' = pos
            /\ comp' = 0
            /\ err' = r.err
            /\ fields' = r.fields
            /\ UNCHANGED <<ret, segments, include_msh, message_control_id>>

AddComponentText ==
    \E v \in TextValues, pos \in FieldPositions, c \in CompPositions :
        LET r == add_component(fields, v, pos, c)
        IN  /\ op' = "add_component"
            /\ value' = v
            /\ position' = pos
            /\ comp' = c
            /\ err' = r.err
            /\ fields' = r.fields
            /\ UNCHANGED <<ret, segments, include_msh, message_control_id>>

NextText == AddFieldText \/ SetFieldText \/ AddComponentText

SpecText == InitSegment /\ [][NextText]_vars

\* what set_field is to store for a value
Stored(v) == IF v.t = "none" THEN <<>> ELSE _escape_hl7(PyStr(v))

\* C2: after set_field(v, p) with p >= 1 the field at position p is
\* escape(str(v)) ("" for None), and every position below p that was unset
\* before the call reads as the empty string.
C2_SetFieldWrites ==
    [][(op' = "set_field" /\ position' >= 1) =>
          /\ Len(fields') >= position'
          /\ fields'[position'] = Stored(value')
          /\ \A i \in (Len(fields) + 1)..(position' - 1) : fields'[i] = <<>>]_vars

\* C4: after add_component(v, f, c) with f, c >= 1 and any value v (falsy
\* non-empty values included), field f split on the component separator has at
\* least c elements and element c-1 is escape(str(v)).
C4_ComponentWritten ==
    (op = "add_component" /\ position >= 1 /\ comp >= 1 /\ value.t # "none") =>
        /\ Len(fields) >= position
        /\ LET parts == Split(fields[position], COMPONENT_SEP)
           IN  /\ Len(parts) >= comp
               /\ parts[comp] = _escape_hl7(PyStr(value))

\* C5: set_field is idempotent at a position: a second set_field(v, p) right
\* after the first leaves the field list exactly as the first call left it.
C5_SetFieldIdempotent ==
    [][(/\ op = "set_field" /\ err = "none"
        /\ op' = "set_field" /\ value' = value /\ position' = position) =>
          fields' = fields]_vars

\* C9: set_field with position < 1, and add_component with a field or component
\* position < 1, fail with ValueError and leave the field list unchanged.
C9_InvalidPositionRejected ==
    [][(\/ (op' = "set_field" /\ position' < 1)
        \/ (op' = "add_component" /\ (position' < 1 \/ comp' < 1))) =>
          (err' = "ValueError" /\ fields' = fields)]_vars

\* a rejected add_component call on a segment that already holds fields
C9_Witness ==
    /\ op = "add_component"
    /\ position >= 1
    /\ comp < 1
    /\ err = "ValueError"
    /\ fields # <<>>

-----------------------------------------------------------------------------
(* HL7Config defaults, dates and names *)

config ==
    [version |-> <<"2", ".", "5">>,
     message_type |-> <<"R", "D", "E", "^", "O", "1", "1">>,
     sending_application |-> <<"P", "R", "E", "S", "C", "R", "I", "P", "T", "I", "O", "N", "_", "S", "Y", "S", "T", "E", "M">>,
     sending_facility |-> <<"H", "E", "A", "L", "T", "H", "C", "A", "R", "E", "_", "P", "R", "O", "V", "I", "D", "E", "R">>,
     receiving_application |-> <<"P", "H", "A", "R", "M", "A", "C", "Y", "_", "S", "Y", "S", "T", "E", "M">>,
     receiving_facility |-> <<"P", "H", "A", "R", "M", "A", "C", "Y">>,
     charset |-> <<"U", "T", "F", "-", "8">>,
     country_code |-> <<"U", "S", "A">>,
     processing_id |-> <<"P">>]

\* a date or datetime value
Date(y, m, d) == [t |-> "date", year |-> y, month |-> m, day |-> d]
DateTime(y, m, d, hh, mm, ss, us) ==
    [t |-> "datetime", year |-> y, month |-> m, day |-> d,
     hour |-> hh, minute |-> mm, second |-> ss, microsecond |-> us]

\* a Decimal with one fractional digit
DecV(units, tenths) == [t |-> "dec", units |-> units, tenths |-> tenths]

\* str(Decimal) and `if decimal`
DecStr(v) == Digits(v.units) \o <<".", Digit(v.tenths)>>
DecTruthy(v) == v.t = "dec" /\ (v.units # 0 \/ v.tenths # 0)

\* the decimal digits of n, zero-padded to `width` characters (strftime fields)
RECURSIVE ZeroPad(_, _)
ZeroPad(n, width) ==
    IF width = 0 THEN <<>> ELSE Append(ZeroPad(n \div 10, width - 1), Digit(n % 10))

\* HL7Builder._format_hl7_date
_format_hl7_date(dt) ==
    CASE dt.t = "datetime" ->
            ZeroPad(dt.year, 4) \o ZeroPad(dt.month, 2) \o ZeroPad(dt.day, 2)
            \o ZeroPad(dt.hour, 2) \o ZeroPad(dt.minute, 2) \o ZeroPad(dt.second, 2)
      [] dt.t = "date" ->
            ZeroPad(dt.year, 4) \o ZeroPad(dt.month, 2) \o ZeroPad(dt.day, 2)
      [] OTHER -> <<>>

\* HL7Builder._generate_control_id: "MSG" + %Y%m%d%H%M%S%f without its last 3 digits
_generate_control_id(now) ==
    <<"M", "S", "G">> \o _format_hl7_date(now) \o ZeroPad(now.microsecond \div 1000, 3)

\* name.split(): the maximal runs of non-whitespace characters
RECURSIVE SplitWS(_, _)
SplitWS(s, word) ==
    IF s = <<>> THEN (IF word = <<>> THEN <<>> ELSE <<word>>)
    ELSE IF Head(s) = " "
         THEN (IF word = <<>> THEN <<>> ELSE <<word>>) \o SplitWS(Tail(s), <<>>)
         ELSE SplitWS(Tail(s), Append(word, Head(s)))

\* HL7Builder._format_name
_format_name(name) ==
    LET parts == SplitWS(name, <<>>)
    IN  IF Len(parts) >= 2
        THEN parts[Len(parts)] \o <<"^">> \o parts[1] \o <<"^">>
             \o Join(SubSeq(parts, 2, Len(parts) - 1), "^")
        ELSE name

-----------------------------------------------------------------------------
(* HL7Segment.build and the segment catalog of HL7Builder *)

Segment(id, flds) == [segment_id |-> id, fields |-> flds]

MSH == <<"M", "S", "H">>
PID == <<"P", "I", "D">>
OBX == <<"O", "B", "X">>
NTE == <<"N", "T", "E">>

\* HL7Segment.build without the separator after the segment id
build_NoSeparator(segment) ==
    segment.segment_id \o Join(segment.fields, FIELD_SEP)

\* HL7Segment.build
build(segment) ==
    segment.segment_id \o <<FIELD_SEP>> \o Join(segment.fields, FIELD_SEP)

\* a run of add_field calls on a new segment: calls[i] = <<value, position>>,
\* applied in order (the first half of the run, then the second half on its
\* result; the test on Len(first) is always true and only makes the first half
\* be computed before the second starts)
RECURSIVE AddFields(_, _)
AddFields(flds, calls) ==
    IF calls = <<>> THEN flds
    ELSE IF Len(calls) = 1 THEN add_field(flds, calls[1][1], calls[1][2])
    ELSE LET half == Len(calls) \div 2
             first == AddFields(flds, SubSeq(calls, 1, half))
         IN  IF Len(first) >= 0
             THEN AddFields(first, SubSeq(calls, half + 1, Len(calls)))
             ELSE first

\* add_field("", i) for i = from .. to
EmptyFields(from, to) == [i \in 1..(to - from + 1) |-> <<StrV(<<>>), from + i - 1>>]

\* str(self.encoding)
EncodingStr == <<FIELD_SEP, COMPONENT_SEP, REPETITION_SEP, ESCAPE_CHAR, SUBCOMPONENT_SEP>>

\* the segment add_msh_segment appends
msh_segment(control_id, now) ==
    Segment(MSH, AddFields(<<>>,
        << <<StrV(EncodingStr), 2>>,
           <<StrV(config.sending_application), 3>>,
           <<StrV(config.sending_facility), 4>>,
           <<StrV(config.receiving_application), 5>>,
           <<StrV(config.receiving_facility), 6>>,
           <<StrV(_format_hl7_date(now)), 7>>,
           <<StrV(<<>>), 8>>,
           <<StrV(config.message_type), 9>>,
           <<StrV(control_id), 10>>,
           <<StrV(config.processing_id), 11>>,
           <<StrV(config.version), 12>>,
           <<StrV(<<>>), 13>>,
           <<StrV(<<>>), 14>>,
           <<StrV(<<"A", "L">>), 15>>,
           <<StrV(<<"A", "L">>), 16>>,
           <<StrV(config.country_code), 17>>,
           <<StrV(config.charset), 18>>,
           <<StrV(<<>>), 19>>,
           <<StrV(<<>>), 20>> >>))

\* HL7Builder.add_msh_segment
add_msh_segment(segs, control_id, now) == Append(segs, msh_segment(control_id, now))

\* the PID segment add_pid_segment appends
pid_segment(patient) ==
    Segment(PID, AddFields(<<>>,
        << <<StrV(<<"1">>), 1>>,
           <<StrV(<<>>), 2>>,
           <<StrV(patient.patient_id \o <<"^", "^">> \o config.sending_facility
                  \o <<"^", "M", "R">>), 3>>,
           <<StrV(<<>>), 4>>,
           <<StrV(_format_name(patient.name)), 5>>,
           <<StrV(<<>>), 6>>,
           <<StrV(_format_hl7_date(patient.date_of_birth)), 7>>,
           <<StrV(patient.gender), 8>> >>
        \o EmptyFields(9, 30)))

\* len([s for s in self.segments if s.segment_id == "OBX"])
CountOBX(segs) == Cardinality({i \in 1..Len(segs) : segs[i].segment_id = OBX})

\* an OBX observation segment of add_pid_segment (body weight or body height)
obx_segment(segs, code, measure, unit, now) ==
    Segment(OBX, AddFields(<<>>,
        << <<StrV(Digits(CountOBX(segs) + 1)), 1>>,
           <<StrV(<<"N", "M">>), 2>>,
           <<StrV(code), 3>>,
           <<StrV(<<>>), 4>>,
           <<StrV(DecStr(measure)), 5>>,
           <<StrV(unit), 6>>,
           <<StrV(<<>>), 7>>,
           <<StrV(<<>>), 8>>,
           <<StrV(<<>>), 9>>,
           <<StrV(<<>>), 10>>,
           <<StrV(<<"F">>), 11>>,
           <<StrV(<<>>), 12>>,
           <<StrV(<<>>), 13>>,
           <<StrV(_format_hl7_date(now)), 14>>,
           <<StrV(<<>>), 15>>,
           <<StrV(<<>>), 16>> >>))

WeightCode == <<"3", "1", "4", "1", "-", "9", "^", "B", "o", "d", "y", " ", "w", "e", "i", "g", "h", "t", " ", "M", "e", "a", "s", "u", "r", "e", "d", "^", "L", "N">>
HeightCode == <<"8", "3", "0", "2", "-", "2", "^", "B", "o", "d", "y", " ", "h", "e", "i", "g", "h", "t", "^", "L", "N">>

\* HL7Builder.add_pid_segment
add_pid_segment(segs, patient, now1, now2) ==
    LET s1 == Append(segs, pid_segment(patient))
        s2 == IF DecTruthy(patient.weight_kg)
              THEN Append(s1, obx_segment(s1, WeightCode, patient.weight_kg, <<"k", "g">>, now1))
              ELSE s1
        s3 == IF DecTruthy(patient.height_cm)
              THEN Append(s2, obx_segment(s2, HeightCode, patient.height_cm, <<"c", "m">>, now2))
              ELSE s2
    IN  s3

\* HL7Builder.add_nte_segment
add_nte_segment(segs, comment, set_id, source) ==
    Append(segs, Segment(NTE, AddFields(<<>>,
        << <<StrV(Digits(set_id)), 1>>,
           <<StrV(source), 2>>,
           <<StrV(comment), 3>> >>)))

-----------------------------------------------------------------------------
(* HL7Builder.build_message *)

\* any(s.segment_id == "MSH" for s in self.segments), looking at the first segment only
HasMSH_FirstOnly(segs) == segs # <<>> /\ segs[1].segment_id = MSH

\* any(s.segment_id == "MSH" for s in self.segments)
HasMSH(segs) == \E i \in 1..Len(segs) : segs[i].segment_id = MSH

\* SEGMENT_DELIMITER.join(segments_str) with a delimiter after every segment
JoinSegments_Trailing(texts) ==
    IF texts = <<>> THEN <<>> ELSE Join(texts, SEGMENT_DELIMITER) \o <<SEGMENT_DELIMITER>>

\* SEGMENT_DELIMITER.join(segments_str)
JoinSegments(texts) == Join(texts, SEGMENT_DELIMITER)

\* HL7Builder.build_message: the segment list it leaves and the text it returns
build_message(segs, inc_msh, control_id, now) ==
    LET segs1 == IF inc_msh /\ ~HasMSH(segs)
                 THEN add_msh_segment(segs, control_id, now)
                 ELSE segs
    IN  [segments |-> segs1,
         text |-> JoinSegments([i \in 1..Len(segs1) |-> build(segs1[i])])]

-----------------------------------------------------------------------------
(* The builder: Init is HL7Builder.__init__, the actions are its methods *)

\* the values datetime.now() returns
Clocks == {DateTime(2024, 12, 10, 9, 30, 0, 123456), DateTime(2025, 1, 2, 13, 5, 59, 7000)}

\* config.message_control_id: absent or supplied
SuppliedControlIds == {None, StrV(<<"C", "T", "L", "1">>)}

Patient(id, name, dob, gender, weight, height) ==
    [patient_id |-> id, name |-> name, date_of_birth |-> dob, gender |-> gender,
     weight_kg |-> weight, height_cm |-> height]

Patients ==
    {Patient(<<"P", "1">>, <<"J", "o", "h", "n", " ", "D", "o", "e">>, Date(1980, 5, 15), <<"M">>, DecV(85, 5), None),
     Patient(<<"P", "2">>, <<"C", "h", "e", "r">>, Date(1946, 5, 20), <<"F">>, DecV(0, 0), DecV(180, 0))}

Comments == {<<"a", "|", "b">>, <<"x", SEGMENT_DELIMITER, "y">>}

InitBuilder ==
    /\ op = "init"
    /\ value = None
    /\ position = 0
    /\ comp = 0
    /\ err = "none"
    /\ ret = <<>>
    /\ fields = <<>>
    /\ segments = <<>>
    /\ include_msh \in BOOLEAN
    /\ \E supplied \in SuppliedControlIds, now \in Clocks :
          message_control_id =
              IF Truthy(supplied) THEN supplied.s ELSE _generate_control_id(now)

AddMshSegment ==
    \E now \in Clocks :
        /\ Len(segments) < MaxSegments
        /\ op' = "add_msh_segment"
        /\ value' = None
        /\ segments' = add_msh_segment(segments, message_control_id, now)
        /\ position' = 0
        /\ ret' = <<>>
        /\ UNCHANGED <<comp, err, fields, include_msh, message_control_id>>

AddPidSegment ==
    \E patient \in Patients, now1 \in Clocks, now2 \in Clocks :
        /\ Len(segments) < MaxSegments
        /\ op' = "add_pid_segment"
        /\ value' = patient
        /\ segments' = add_pid_segment(segments, patient, now1, now2)
        /\ position' = 0
        /\ ret' = <<>>
        /\ UNCHANGED <<comp, err, fields, include_msh, message_control_id>>

AddNteSegment ==
    \E comment \in Comments :
        /\ Len(segments) < MaxSegments
        /\ op' = "add_nte_segment"
        /\ value' = StrV(comment)
        /\ segments' = add_nte_segment(segments, comment, 1, <<"P">>)
        /\ position' = 0
        /\ ret' = <<>>
        /\ UNCHANGED <<comp, err, fields, include_msh, message_control_id>>

BuildMessage ==
    \E now \in Clocks :
        LET r == build_message(segments, include_msh, message_control_id, now)
        IN  /\ op' = "build_message"
            /\ value' = None
            /\ segments' = r.segments
            /\ ret' = r.text
            /\ position' = 0
            /\ UNCHANGED <<comp, err, fields, include_msh, message_control_id>>

\* HL7Segment.build called on one of the builder's segments
Build ==
    \E i \in 1..Len(segments) :
        /\ op' = "build"
        /\ value' = None
        /\ position' = i
        /\ ret' = build(segments[i])
        /\ UNCHANGED <<comp, err, fields, segments, include_msh, message_control_id>>

NextBuilder == AddMshSegment \/ AddPidSegment \/ AddNteSegment \/ BuildMessage \/ Build

SpecBuilder == InitBuilder /\ [][NextBuilder]_vars

\* some segment of segs is an MSH segment
HeaderPresent(segs) == Cardinality({i \in 1..Len(segs) : segs[i].segment_id = MSH}) >= 1

\* C6: when build_message synthesizes the header (include_msh set, no MSH
\* present), the MSH segment is the first segment of the builder's sequence and
\* the returned text starts with it.
C6_HeaderFirst ==
    [][(op' = "build_message" /\ include_msh /\ ~HeaderPresent(segments)) =>
          /\ segments' # <<>>
          /\ segments'[1].segment_id = MSH
          /\ Len(ret') >= 4
          /\ SubSeq(ret', 1, 4) = MSH \o <<FIELD_SEP>>]_vars

\* C7: header synthesis is a no-op when an MSH segment is present: a
\* build_message call adds at most one segment, adds none when a header is
\* already there, and a build_message call that follows a build_message call
\* leaves the segment list (and so its count) as it was.
C7_HeaderOnce ==
    [][op' = "build_message" =>
          /\ Len(segments') <= Len(segments) + 1
          /\ (HeaderPresent(segments) => segments' = segments)
          /\ (op = "build_message" => segments' = segments)]_vars

\* build_message has synthesized the one header of a builder that held segments
C7_Witness ==
    /\ op = "build_message"
    /\ include_msh
    /\ Len(segments) >= 2
    /\ Cardinality({i \in 1..Len(segments) : segments[i].segment_id = MSH}) = 1
    /\ segments[Len(segments)].segment_id = MSH

\* the number of characters before the i-th text in a delimiter-joined text
RECURSIVE OffsetOf(_, _)
OffsetOf(texts, i) == IF i = 1 THEN 0 ELSE OffsetOf(texts, i - 1) + Len(texts[i - 1]) + 1

\* text is exactly the given texts in order, one delimiter between neighbours
JoinedInOrder(text, texts) ==
    LET n == Len(texts)
    IN  /\ Len(text) = IF n = 0 THEN 0 ELSE OffsetOf(texts, n) + Len(texts[n])
        /\ \A i \in 1..n :
              SubSeq(text, OffsetOf(texts, i) + 1, OffsetOf(texts, i) + Len(texts[i])) = texts[i]
        /\ \A i \in 1..(n - 1) :
              text[OffsetOf(texts, i) + Len(texts[i]) + 1] = SEGMENT_DELIMITER

\* C8: with include_msh false, build_message leaves the segment list alone and
\* returns the segments' build() texts in append order, joined by single
\* carriage returns, with no leading or trailing delimiter.
C8_AppendOrder ==
    [][(op' = "build_message" /\ ~include_msh) =>
          /\ segments' = segments
          /\ JoinedInOrder(ret', [i \in 1..Len(segments) |-> build(segments[i])])]_vars

\* three appended segments, the first two of different types, were serialized
\* without a header being added
C8_Witness ==
    /\ op = "build_message"
    /\ ~include_msh
    /\ Len(segments) >= 3
    /\ segments[1].segment_id # segments[2].segment_id
    /\ ~HeaderPresent(segments)
    /\ \E i \in 1..Len(ret) : ret[i] = SEGMENT_DELIMITER

\* the PID segment the last add_pid_segment call appended
LastPID ==
    segments[CHOOSE i \in 1..Len(segments) :
                /\ segments[i].segment_id = PID
                /\ \A j \in (i + 1)..Len(segments) : segments[j].segment_id # PID]

\* C10: for a patient whose name is two whitespace-separated words, the PID
\* segment of add_pid_segment holds _format_name(name) at field position 5
\* (fields[4]).
C10_NameAtPID5 ==
    (op = "add_pid_segment" /\ Len(SplitWS(value.name, <<>>)) = 2) =>
        /\ Len(LastPID.fields) >= 5
        /\ LastPID.fields[5] = _format_name(value.name)

\* the canonical string form the encoding profile is to have
CanonicalEncoding == <<COMPONENT_SEP, REPETITION_SEP, ESCAPE_CHAR, SUBCOMPONENT_SEP>>

\* C11: the canonical string form of the encoding characters is the component,
\* repetition, escape and subcomponent separators (four characters, no field
\* separator), and every synthesized MSH segment carries exactly that string
\* as one of its fields (its encoding field).
C11_EncodingField ==
    \A i \in 1..Len(segments) :
        segments[i].segment_id = MSH =>
            /\ EncodingStr = CanonicalEncoding
            /\ \E k \in 1..Len(segments[i].fields) :
                  segments[i].fields[k] = CanonicalEncoding

\* text is exactly the given texts in order, one sep between neighbours
JoinedBy(text, texts, sep) ==
    LET n == Len(texts)
        off(i) == OffsetOf(texts, i)
    IN  /\ Len(text) = IF n = 0 THEN 0 ELSE off(n) + Len(texts[n])
        /\ \A i \in 1..n : SubSeq(text, off(i) + 1, off(i) + Len(texts[i])) = texts[i]
        /\ \A i \in 1..(n - 1) : text[off(i) + Len(texts[i]) + 1] = sep

\* C12: Segment.build() is segment_id + field separator + the fields joined by
\* the field separator, leaves the field list alone and returns the same text
\* when called again; two build_message calls in a row return the same text.
C12_BuildIdempotent ==
    [][/\ op' = "build" =>
             /\ segments' = segments
             /\ LET seg == segments[position']
                    n == Len(seg.segment_id)
                IN  /\ Len(ret') >= n + 1
                    /\ SubSeq(ret', 1, n) = seg.segment_id
                    /\ ret'[n + 1] = FIELD_SEP
                    /\ JoinedBy(SubSeq(ret', n + 2, Len(ret')), seg.fields, FIELD_SEP)
             /\ (op = "build" /\ position = position') => ret' = ret
       /\ (op' = "build_message" /\ op = "build_message") =>
             (ret' = ret /\ segments' = segments)]_vars

\* build() was called on a PID segment of the builder
C12_Witness ==
    /\ op = "build"
    /\ segments[position].segment_id = PID
    /\ Len(segments[position].fields) >= 30
    /\ Len(ret) > 30

-----------------------------------------------------------------------------
(* parse_hl7_response: Init draws the received text, the one action parses it *)

MaxLines == 3      \* most lines of a received message

MSA == <<"M", "S", "A">>

\* line.startswith(prefix)
StartsWith(line, prefix) ==
    Len(line) >= Len(prefix) /\ SubSeq(line, 1, Len(prefix)) = prefix

\* parts[i] if len(parts) > i else "" (i is a 0-based index)
PartOr(parts, i) == IF Len(parts) > i THEN parts[i + 1] ELSE <<>>

AA == <<"A", "A">>
AE == <<"A", "E">>
AR == <<"A", "R">>

\* the body of the for loop of parse_hl7_response for one line
ParseLine(result, line) ==
    LET parts == Split(line, "|")
        r1 == IF StartsWith(line, MSH)
              THEN [result EXCEPT !.message_type = PartOr(parts, 8),
                                  !.message_control_id = PartOr(parts, 9)]
              ELSE IF StartsWith(line, MSA) /\ Len(parts) >= 2
              THEN [result EXCEPT
                      !.acknowledgment = [t |-> "dict", code |-> parts[2],
                                          message |-> PartOr(parts, 2),
                                          control_id |-> PartOr(parts, 3)],
                      !.status = IF parts[2] = AA THEN "accepted"
                                 ELSE IF parts[2] = AE THEN "error"
                                 ELSE IF parts[2] = AR THEN "rejected"
                                 ELSE result.status]
              ELSE result
    IN  [r1 EXCEPT !.segments = Append(r1.segments, SubSeq(line, 1, IF Len(line) < 3 THEN Len(line) ELSE 3))]

\* the for loop over the lines
RECURSIVE ParseLines(_, _)
ParseLines(result, lines) ==
    IF lines = <<>> THEN result ELSE ParseLines(ParseLine(result, Head(lines)), Tail(lines))

\* parse_hl7_response (message_type and message_control_id are "" while unset)
parse_hl7_response(hl7_message) ==
    ParseLines([segments |-> <<>>, acknowledgment |-> None, status |-> "unknown",
                message_type |-> <<>>, message_control_id |-> <<>>],
               Split(hl7_message, SEGMENT_DELIMITER))

\* the lines received messages are made of
ResponseLines ==
    {<<"M", "S", "H", "|", "^", "~", "\\", "&", "|", "A", "|", "B", "|", "C", "|", "D", "|", "T", "|", "|", "A", "C", "K", "|", "I", "D", "1", "|", "P", "|", "2", ".", "5">>, <<"M", "S", "A", "|", "A", "A", "|", "I", "D", "1">>, <<"M", "S", "A", "|", "A", "E">>, <<"M", "S", "A", "|", "A", "R", "|", "I", "D", "1", "|", "x">>, <<"M", "S", "A", "|", "C", "A">>, <<"M", "S", "A">>}

ReceivedTexts ==
    {Join(ls, SEGMENT_DELIMITER) : ls \in UNION {[1..n -> ResponseLines] : n \in 0..MaxLines}}

InitParse ==
    /\ op = "init"
    /\ value \in {StrV(t) : t \in ReceivedTexts}
    /\ position = 0
    /\ comp = 0
    /\ err = "none"
    /\ ret = <<>>
    /\ fields = <<>>
    /\ segments = <<>>
    /\ include_msh = TRUE
    /\ message_control_id = <<>>

Parse ==
    /\ op = "init"
    /\ op' = "parse_hl7_response"
    /\ ret' = parse_hl7_response(value.s)
    /\ UNCHANGED <<value, position, comp, err, fields, segments, include_msh, message_control_id>>

NextParse == Parse

SpecParse == InitParse /\ [][NextParse]_vars

\* the status that goes with an acknowledgment
StatusOf(ack) ==
    IF ack.t = "none" THEN "unknown"
    ELSE IF ack.code = AA THEN "accepted"
    ELSE IF ack.code = AE THEN "error"
    ELSE IF ack.code = AR THEN "rejected"
    ELSE "unknown"

\* C13: the status parse_hl7_response returns is determined by the code of the
\* acknowledgment it returns: accepted for AA, error for AE, rejected for AR,
\* unknown otherwise (also when there is no acknowledgment).
C13_StatusMatchesAck ==
    op = "parse_hl7_response" => ret.status = StatusOf(ret.acknowledgment)

\* C15: add_component(v, f, c) on a field that already exists changes only
\* component c of field f: the other components of the field keep their value
\* and index (none after c is dropped) and the other fields are unchanged.
C15_ComponentFrame ==
    [][(op' = "add_component" /\ err' = "none" /\ position' >= 1
        /\ Len(fields) >= position') =>
          LET old == Split(fields[position'], COMPONENT_SEP)
              new == Split(fields'[position'], COMPONENT_SEP)
          IN  /\ Len(fields') = Len(fields)
              /\ \A k \in 1..Len(fields) : k # position' => fields'[k] = fields[k]
              /\ Len(new) >= Len(old)
              /\ \A j \in 1..Len(old) : j # comp' => new[j] = old[j]]_vars

\* component 1 of a two-component field was written, next to another field
C15_Witness ==
    /\ op = "add_component"
    /\ err = "none"
    /\ position = 1
    /\ comp = 1
    /\ Len(fields) >= 2
    /\ fields[2] # <<>>
    /\ LET parts == Split(fields[1], COMPONENT_SEP)
       IN  Len(parts) = 2 /\ parts[1] # <<>> /\ parts[2] # <<>>

\* the number of occurrences of the character c in the text s
Occurrences(s, c) == Cardinality({i \in 1..Len(s) : s[i] = c})

\* no stored field holds the field, repetition or subcomponent separator
NoRawDelimiter(flds) ==
    \A k \in 1..Len(flds) : \A i \in 1..Len(flds[k]) :
        flds[k][i] \notin {FIELD_SEP, REPETITION_SEP, SUBCOMPONENT_SEP}

\* the number of pieces of Segment.build() split on the field separator
Pieces(flds) == Len(Split(build(Segment(PID, flds)), FIELD_SEP))

\* the components add_component finds in field f before it writes
ComponentsBefore(flds, f) ==
    IF f <= Len(flds) /\ flds[f] # <<>> THEN Len(Split(flds[f], COMPONENT_SEP)) ELSE 0

\* C16 as stated: after any calls of add_field, set_field and add_component no
\* stored field holds the field, repetition or subcomponent separator, and
\* Segment.build() split on the field separator has len(fields) + 1 pieces.
C16_PiecesPerField ==
    op \in {"add_field", "set_field", "add_component"} =>
        /\ NoRawDelimiter(fields)
        /\ Pieces(fields) = Len(fields) + 1

\* C16 amended: after each call no stored field holds the field, repetition or
\* subcomponent separator; a call adds component separators to a field only as
\* the boundaries add_component writes in the field it addresses; and
\* Segment.build() split on the field separator has len(fields) + 1 pieces when
\* a field is stored, and 2 pieces (the id and an empty text) when none is.
C16_NoRawDelimiters ==
    [][/\ NoRawDelimiter(fields')
       /\ Pieces(fields') = IF Len(fields') = 0 THEN 2 ELSE Len(fields') + 1
       /\ \A k \in 1..Len(fields') :
            IF op' = "add_component" /\ err' = "none" /\ k = position'
            THEN LET before == ComponentsBefore(fields, k)
                     n == IF before > comp' THEN before ELSE comp'
                 IN  Occurrences(fields'[k], COMPONENT_SEP) = n - 1
            ELSE Occurrences(fields'[k], COMPONENT_SEP) <=
                     (IF k <= Len(fields) THEN Occurrences(fields[k], COMPONENT_SEP)
                      ELSE 0)]_vars

\* a value holding the four separators was written as the second component of
\* a field that held it as its only component, next to another stored field
C16_Witness ==
    /\ op = "add_component"
    /\ err = "none"
    /\ value = StrV(<<FIELD_SEP, COMPONENT_SEP, REPETITION_SEP, SUBCOMPONENT_SEP>>)
    /\ comp = 2
    /\ Len(fields) >= 2
    /\ fields[position] =
           _escape_hl7(PyStr(value)) \o <<COMPONENT_SEP>> \o _escape_hl7(PyStr(value))

\* C17: the text returned by build_message, split on the segment delimiter,
\* has exactly one piece per segment held by the builder, whatever the field
\* values written into the segments (stated for a builder that holds a segment).
C17_FramingPreserved ==
    (op = "build_message" /\ Len(segments) >= 1) =>
        Len(Split(ret, SEGMENT_DELIMITER)) = Len(segments)

====
